---- MODULE Spec2Model ----
(***************************************************************************)
(* Model of fileSorter.py: a directory scan seeds a shared queue, a pool   *)
(* of worker threads drains it, each worker hashing, classifying,          *)
(* de-duplicating and moving one file at a time, and a recovery file       *)
(* remembers the source paths already handled.                             *)
(*                                                                         *)
(* Scope: one sort_files invocation runs at a time (a second one starts    *)
(* only after the first returned or the process was terminated).  The      *)
(* writes to log.txt and recovery.txt themselves are taken to succeed;     *)
(* hashing, directory creation and moving may fail.                        *)
(*                                                                         *)
(* Granularity: a worker's step ends at each access to state that another  *)
(* worker can change under it: the emptiness test, the get, the read of    *)
(* the file, the dict lookup, the move, the dict store.  What follows such *)
(* an access and touches nothing another worker reads before the next one  *)
(* (the skip test on the worker's own path, makedirs with exist_ok, the    *)
(* add to processed_files, the append to recovery.txt) is part of the same *)
(* step.  The log line of a move is written in the step of the move.       *)
(*                                                                         *)
(* Text is modelled as sequences of one-character strings, so that         *)
(* suffix, lstrip, lower and strip are computed as Python computes them.   *)
(* A location in the tree is the sequence of path components below the     *)
(* selected root folder: <<name>> or <<directory, name>>.                  *)
(***************************************************************************)
EXTENDS Integers, Sequences, FiniteSets, Bags, TLC

\* ------------------------------------------------------------------ bounds
NumWorkers == 2     \* thread_count
MaxFiles == 2       \* files in the tree when the first run starts
MaxRuns == 2        \* sort_files invocations in one behaviour
MaxFaults == 1      \* injected I/O failures in one behaviour

Workers == 1..NumWorkers
NoPath == [type |-> "None", parts |-> <<>>]     \* file_path not bound
NoHash == <<>>                                  \* file_hash not bound

\* ------------------------------------------------------------------ text
UpperCase == <<"A","B","C","D","E","F","G","H","I","J","K","L","M",
               "N","O","P","Q","R","S","T","U","V","W","X","Y","Z">>
LowerCase == <<"a","b","c","d","e","f","g","h","i","j","k","l","m",
               "n","o","p","q","r","s","t","u","v","w","x","y","z">>
Whitespace == {" ", "\t", "\n", "\r"}

\* str.lower()
lower(s) ==
    [i \in 1..Len(s) |->
        IF \E k \in 1..26 : UpperCase[k] = s[i]
        THEN LowerCase[CHOOSE k \in 1..26 : UpperCase[k] = s[i]]
        ELSE s[i]]

\* str.lstrip(".")
RECURSIVE lstrip_dot(_)
lstrip_dot(s) ==
    IF s # <<>> /\ Head(s) = "." THEN lstrip_dot(Tail(s)) ELSE s

\* str.strip() on one line of text
RECURSIVE lstrip_ws(_)
lstrip_ws(s) ==
    IF s # <<>> /\ Head(s) \in Whitespace THEN lstrip_ws(Tail(s)) ELSE s
RECURSIVE rstrip_ws(_)
rstrip_ws(s) ==
    IF s # <<>> /\ s[Len(s)] \in Whitespace
    THEN rstrip_ws(SubSeq(s, 1, Len(s) - 1)) ELSE s

\* PurePath.suffix: the text from the last dot of the name, unless that dot
\* is the first or the last character.
suffix(name) ==
    LET dots == {i \in 1..Len(name) : name[i] = "."}
    IN  IF dots = {} THEN <<>>
        ELSE LET i == CHOOSE j \in dots : \A k \in dots : k <= j
             IN  IF 1 < i /\ i < Len(name)
                 THEN SubSeq(name, i, Len(name)) ELSE <<>>

\* ------------------------------------------------------------------ names
allowed_types == { <<"j","p","g">>, <<"p","n","g">>, <<"t","x","t">>,
                   <<"p","d","f">>, <<"d","o","c","x">> }
no_extension == <<"n","o","_","e","x","t","e","n","s","i","o","n">>
duplicate_files == <<"d","u","p","l","i","c","a","t","e","_",
                     "f","i","l","e","s">>

\* File names and directories of the trees the model starts from: files in
\* the root, in a sub-folder, and in an extension folder that the tree
\* already has (left by an earlier sort, or made by the user).
Names == { <<"a",".","t","x","t">>, <<"b",".","T","X","T">>, <<"c">> }
SubDir == <<"s","u","b">>
Contents == {"x", "y"}
SourceLocs == { <<n>> : n \in Names }
                \cup { <<SubDir, <<"a",".","t","x","t">>>>,
                       << <<"t","x","t">>, <<"a",".","t","x","t">>>> }

\* ------------------------------------------------------------------ values
\* Python values: a pathlib.Path and a str never compare equal, whatever
\* their text, so each value carries its type.
PathObj(loc) == [type |-> "Path", parts |-> loc]
str(p) == [type |-> "str", parts |-> p.parts]
name_of(p) == p.parts[Len(p.parts)]

\* line.strip() of a recovery-file line
strip(line) ==
    LET n == Len(line.parts)
    IN  [line EXCEPT !.parts =
            [i \in 1..n |->
                LET a == IF i = 1 THEN lstrip_ws(line.parts[i]) ELSE line.parts[i]
                IN  IF i = n THEN rstrip_ws(a) ELSE a]]

\* hashlib.md5(content).hexdigest(): one digest per content
calculate_checksum(content) == <<"md5", content>>


\* ------------------------------------------------------------------ state
VARIABLES
    fs,               \* the tree: location -> content of the file there
    dirs,             \* the directories of the tree (locations)
    ledger,           \* recovery.txt: bag of lines (str values)
    log,              \* log.txt: bag of entries
    phase,            \* "idle", "working", "nothing", "completed", "killed"
    runs,             \* sort_files invocations started so far
    scan,             \* history: the tree as the scan of the run found it
    unrecorded,       \* history: where the last kill left unrecorded moves
    kills,            \* forced terminations of the process so far
    faults,           \* I/O failures injected so far
    processed_files,  \* the global set: str values loaded, Path values added
    all_files,        \* sort_files' list of scanned files (as a set of Paths)
    file_queue,       \* queue.Queue of Path values
    claimed,          \* history: bag of the values file_queue.get() returned
    queue_mutex,      \* the worker holding queue_mutex, or Unlocked
    file_hashes,      \* the run's dict: digest -> destination (str)
    pc,               \* each worker's position in worker()
    file_path,        \* each worker's local file_path
    file_hash         \* each worker's local file_hash

vars == <<fs, dirs, ledger, log, phase, runs, scan, unrecorded, kills,
          faults, processed_files, all_files, file_queue, claimed,
          queue_mutex, file_hashes, pc, file_path, file_hash>>

Unlocked == <<"unlocked", 0>>
Holder(w) == <<"worker", w>>

disk == <<fs, dirs, ledger, log>>
NoScan == [tree |-> <<>>]

\* ------------------------------------------------------------------ helpers
Files(tree) == DOMAIN tree
parent(loc) == SubSeq(loc, 1, Len(loc) - 1)
StrOf(loc) == [type |-> "str", parts |-> loc]

\* A faulty extension rule, which C19 must not survive: no lower().
extension_of_raw(p) ==
    LET e == lstrip_dot(suffix(name_of(p)))
    IN  IF e = <<>> THEN no_extension ELSE e

\* os.path.join(root_dir, extension) with the worker's extension rule
extension_of(p) ==
    LET e == lower(lstrip_dot(suffix(name_of(p))))
    IN  IF e = <<>> THEN no_extension ELSE e
dest_dir_of(p) == <<extension_of(p)>>
dest_path_of(p) == <<extension_of(p), name_of(p)>>
duplicate_dir == <<duplicate_files>>
duplicate_dest_of(p) == <<duplicate_files, name_of(p)>>

\* A faulty filter, which C14 must not survive: every file passes.
filter_files_off(p) == TRUE

filter_files(p) == lower(lstrip_dot(suffix(name_of(p)))) \in allowed_types

\* load_recovery(): the set of stripped lines (an absent file reads as empty)
load_recovery(lines) == { strip(l) : l \in BagToSet(lines) }

\* save_to_recovery(): one more line
save_to_recovery(lines, p) == lines (+) SetToBag({str(p)})

\* shutil.move(src, dst) of a file onto a file path: a rename, which replaces
\* whatever file is at dst; src onto itself changes nothing.
shutil_move(tree, src, dst) ==
    [l \in (DOMAIN tree \ {src}) \cup {dst} |->
        IF l = dst THEN tree[src] ELSE tree[l]]

\* A faulty get(), which C1 must not survive: the item is read, not removed.
queue_get_peek(q) == [item |-> Head(q), rest |-> q]

\* file_queue.get(): the oldest item leaves the queue
queue_get(q) == [item |-> Head(q), rest |-> Tail(q)]

\* file_hashes[file_hash] = dest_path
dict_set(d, k, v) == (k :> v) @@ d

\* "file_path in processed_files": set membership by hash and ==
contains(set, value) == value \in set

LogEntry(level, msg, src, dst) ==
    [level |-> level, msg |-> msg, src |-> src, dst |-> dst]
log_operation(l, entry) == l (+) SetToBag({entry})

Orderings(S) ==
    { q \in [1..Cardinality(S) -> S] : \A i, j \in 1..Cardinality(S) :
                                          q[i] = q[j] => i = j }

\* ------------------------------------------------------------------ Init
InitialTrees ==
    UNION { [S -> Contents] :
            S \in { T \in SUBSET SourceLocs :
                    Cardinality(T) >= 1 /\ Cardinality(T) <= MaxFiles } }

Init ==
    /\ fs \in InitialTrees
    /\ dirs = {<<>>} \cup { parent(l) : l \in DOMAIN fs }
    /\ ledger = EmptyBag
    /\ log = EmptyBag
    /\ phase = "idle"
    /\ runs = 0
    /\ scan = NoScan
    /\ unrecorded = {}
    /\ kills = 0
    /\ faults = 0
    /\ processed_files = {}
    /\ all_files = {}
    /\ file_queue = <<>>
    /\ claimed = EmptyBag
    /\ queue_mutex = Unlocked
    /\ file_hashes = <<>>
    /\ pc = [w \in Workers |-> "idle"]
    /\ file_path = [w \in Workers |-> NoPath]
    /\ file_hash = [w \in Workers |-> NoHash]

\* ------------------------------------------------------------------ sort_files
\* Lines 90-115: reload the processed set, scan, filter, enqueue; with an
\* empty queue report and return, otherwise create the dict and the pool.
sort_files ==
    /\ phase # "working"
    /\ runs < MaxRuns
    /\ runs' = runs + 1
    /\ processed_files' = load_recovery(ledger)
    /\ all_files' = { PathObj(l) : l \in
                        { m \in Files(fs) :
                            ~contains(processed_files', PathObj(m)) } }
    /\ \E order \in Orderings({ p \in all_files' : filter_files(p) }) :
            file_queue' = file_queue \o order
    /\ scan' = [tree |-> fs]
    /\ claimed' = EmptyBag
    /\ file_hashes' = <<>>
    /\ IF Len(file_queue') = 0
       THEN /\ phase' = "nothing"
            /\ pc' = [w \in Workers |-> "idle"]
       ELSE /\ phase' = "working"
            /\ pc' = [w \in Workers |-> "loop"]
    /\ file_path' = [w \in Workers |-> NoPath]
    /\ file_hash' = [w \in Workers |-> NoHash]
    /\ UNCHANGED <<disk, unrecorded, kills, faults, queue_mutex>>

\* delete_empty_folders(): os.walk lists each directory's entries before it
\* descends, so a directory is removed when it held neither a file nor a
\* folder when the walk began; each removal is logged.
EmptyDirs(tree, ds) ==
    { d \in ds : /\ ~\E l \in DOMAIN tree : parent(l) = d
                 /\ ~\E e \in ds : Len(e) > 0 /\ parent(e) = d }

RECURSIVE LogDeleted(_, _)
LogDeleted(l, ds) ==
    IF ds = {} THEN l
    ELSE LET d == CHOOSE e \in ds : TRUE
         IN  LogDeleted(log_operation(l,
                 LogEntry("INFO", "Deleted empty folder", d, <<>>)), ds \ {d})

\* A faulty join, which C18 must not survive: one returned worker suffices.
pool_joined_early == \E w \in Workers : pc[w] = "done"

\* Lines 113-115: leaving the with block waits for every submitted worker.
pool_joined == \A w \in Workers : pc[w] = "done"

\* Lines 113-121: the pool's workers have all returned.
finish_sorting ==
    /\ phase = "working"
    /\ pool_joined
    /\ phase' = "completed"
    /\ dirs' = dirs \ EmptyDirs(fs, dirs)
    /\ log' = LogDeleted(
                log_operation(log,
                    LogEntry("INFO", "File sorting completed.", <<>>, <<>>)),
                EmptyDirs(fs, dirs))
    /\ pc' = [w \in Workers |-> "idle"]
    /\ UNCHANGED <<fs, ledger, runs, scan, unrecorded, kills, faults,
                   processed_files, all_files, file_queue, claimed,
                   queue_mutex, file_hashes, file_path, file_hash>>

\* The operating environment terminates the process during the work phase:
\* the files, recovery.txt and log.txt stay, the memory of the process goes.
kill_process ==
    /\ phase = "working"
    /\ phase' = "killed"
    /\ kills' = kills + 1
    /\ processed_files' = {}
    /\ all_files' = {}
    /\ file_queue' = <<>>
    /\ claimed' = EmptyBag
    /\ queue_mutex' = Unlocked
    /\ file_hashes' = <<>>
    /\ pc' = [w \in Workers |-> "idle"]
    /\ file_path' = [w \in Workers |-> NoPath]
    /\ file_hash' = [w \in Workers |-> NoHash]
    /\ scan' = NoScan
    /\ unrecorded' =
          { dest_path_of(file_path[w]) :
                    w \in { v \in Workers : pc[v] = "placed_orig" } }
          \cup { duplicate_dest_of(file_path[w]) :
                    w \in { v \in Workers : pc[v] = "placed_dup" } }
    /\ UNCHANGED <<disk, runs, faults>>


\* ------------------------------------------------------------------ worker
\* Line 50: while not file_queue.empty()
check_empty(w) ==
    /\ phase = "working"
    /\ pc[w] = "loop"
    /\ pc' = [pc EXCEPT ![w] = IF Len(file_queue) = 0 THEN "done" ELSE "lock"]
    /\ UNCHANGED <<disk, phase, runs, scan, unrecorded, kills, faults,
                   processed_files, all_files, file_queue, claimed,
                   queue_mutex, file_hashes, file_path, file_hash>>

\* A faulty handler, which C9 must not survive: the exception ends worker().
abandon_and_exit(w, p, ds) ==
    /\ dirs' = ds
    /\ log' = log_operation(log,
                LogEntry("ERROR", "Error moving file", p.parts, <<>>))
    /\ pc' = [pc EXCEPT ![w] = "done"]
    /\ file_path' = [file_path EXCEPT ![w] = NoPath]
    /\ file_hash' = [file_hash EXCEPT ![w] = NoHash]
    /\ UNCHANGED <<fs, ledger, phase, runs, scan, unrecorded, kills,
                   processed_files, all_files, file_hashes>>

\* A faulty handler, which C10 must not survive: the path is recorded
\* although the task failed (the record in a finally clause).
abandon_and_record(w, p, ds) ==
    /\ dirs' = ds
    /\ log' = log_operation(log,
                LogEntry("ERROR", "Error moving file", p.parts, <<>>))
    /\ ledger' = save_to_recovery(ledger, p)
    /\ pc' = [pc EXCEPT ![w] = "loop"]
    /\ file_path' = [file_path EXCEPT ![w] = NoPath]
    /\ file_hash' = [file_hash EXCEPT ![w] = NoHash]
    /\ UNCHANGED <<fs, phase, runs, scan, unrecorded, kills, processed_files,
                   all_files, file_hashes>>

\* Lines 81-82: except Exception: log the error; the loop goes on.
abandon(w, p, ds) ==
    /\ dirs' = ds
    /\ log' = log_operation(log,
                LogEntry("ERROR", "Error moving file", p.parts, <<>>))
    /\ pc' = [pc EXCEPT ![w] = "loop"]
    /\ file_path' = [file_path EXCEPT ![w] = NoPath]
    /\ file_hash' = [file_hash EXCEPT ![w] = NoHash]
    /\ UNCHANGED <<fs, ledger, phase, runs, scan, unrecorded, kills,
                   processed_files, all_files, file_hashes>>

\* Lines 51-62: with queue_mutex: file_path = file_queue.get(); then the skip
\* test and os.makedirs(dest_dir, exist_ok=True).  get() waits while the
\* queue is empty, and nothing is enqueued during the work phase: a worker
\* that enters with the queue empty stays in get(), holding queue_mutex.
take_task(w) ==
    /\ phase = "working"
    /\ pc[w] = "lock"
    /\ queue_mutex = Unlocked
    /\ IF Len(file_queue) = 0
       THEN /\ queue_mutex' = Holder(w)
            /\ pc' = [pc EXCEPT ![w] = "get"]
            /\ UNCHANGED <<file_queue, claimed, file_path, dirs>>
       ELSE /\ file_queue' = queue_get(file_queue).rest
            /\ claimed' = claimed (+) SetToBag({queue_get(file_queue).item})
            /\ queue_mutex' = Unlocked
            /\ IF contains(processed_files, queue_get(file_queue).item)
               THEN /\ pc' = [pc EXCEPT ![w] = "loop"]
                    /\ UNCHANGED <<file_path, dirs>>
               ELSE /\ file_path' = [file_path EXCEPT ![w] =
                                        queue_get(file_queue).item]
                    /\ dirs' = dirs \cup
                                {dest_dir_of(queue_get(file_queue).item)}
                    /\ pc' = [pc EXCEPT ![w] = "hash"]
    /\ UNCHANGED <<fs, ledger, log, phase, runs, scan, unrecorded, kills,
                   faults, processed_files, all_files, file_hashes, file_hash>>

\* The same lines when os.makedirs(dest_dir) raises.
take_task_fails(w) ==
    /\ phase = "working"
    /\ pc[w] = "lock"
    /\ queue_mutex = Unlocked
    /\ Len(file_queue) > 0
    /\ ~contains(processed_files, queue_get(file_queue).item)
    /\ faults < MaxFaults
    /\ faults' = faults + 1
    /\ file_queue' = queue_get(file_queue).rest
    /\ claimed' = claimed (+) SetToBag({queue_get(file_queue).item})
    /\ queue_mutex' = Unlocked
    /\ abandon(w, queue_get(file_queue).item, dirs)

\* Line 65: file_hash = calculate_checksum(file_path)
hash_file(w) ==
    /\ phase = "working"
    /\ pc[w] = "hash"
    /\ file_path[w].parts \in Files(fs)
    /\ file_hash' = [file_hash EXCEPT ![w] =
                        calculate_checksum(fs[file_path[w].parts])]
    /\ pc' = [pc EXCEPT ![w] = "lookup"]
    /\ UNCHANGED <<disk, phase, runs, scan, unrecorded, kills, faults,
                   processed_files, all_files, file_queue, claimed,
                   queue_mutex, file_hashes, file_path>>

\* open() or read() raises: the file is unreadable or gone
hash_file_fails(w) ==
    /\ phase = "working"
    /\ pc[w] = "hash"
    /\ \/ file_path[w].parts \notin Files(fs) /\ faults' = faults
       \/ /\ file_path[w].parts \in Files(fs)
          /\ faults < MaxFaults
          /\ faults' = faults + 1
    /\ abandon(w, file_path[w], dirs)
    /\ UNCHANGED <<file_queue, claimed, queue_mutex>>

\* Line 66: if file_hash in file_hashes
lookup_hash(w) ==
    /\ phase = "working"
    /\ pc[w] = "lookup"
    /\ pc' = [pc EXCEPT ![w] =
                IF file_hash[w] \in DOMAIN file_hashes
                THEN "move_dup" ELSE "move_orig"]
    /\ UNCHANGED <<disk, phase, runs, scan, unrecorded, kills, faults,
                   processed_files, all_files, file_queue, claimed,
                   queue_mutex, file_hashes, file_path, file_hash>>

\* Lines 68-71: the duplicate goes to <root>/duplicate_files/<name>
move_duplicate(w) ==
    /\ phase = "working"
    /\ pc[w] = "move_dup"
    /\ file_path[w].parts \in Files(fs)
    /\ dirs' = dirs \cup {duplicate_dir}
    /\ fs' = shutil_move(fs, file_path[w].parts, duplicate_dest_of(file_path[w]))
    /\ log' = log_operation(log,
                LogEntry("INFO", "Duplicate file found and moved",
                         file_path[w].parts, duplicate_dest_of(file_path[w])))
    /\ pc' = [pc EXCEPT ![w] = "placed_dup"]
    /\ UNCHANGED <<ledger, phase, runs, scan, unrecorded, kills, faults,
                   processed_files, all_files, file_queue, claimed,
                   queue_mutex, file_hashes, file_path, file_hash>>

\* makedirs or move raises: the directory may or may not have been created
move_duplicate_fails(w) ==
    /\ phase = "working"
    /\ pc[w] = "move_dup"
    /\ \/ file_path[w].parts \notin Files(fs) /\ faults' = faults
       \/ /\ file_path[w].parts \in Files(fs)
          /\ faults < MaxFaults
          /\ faults' = faults + 1
    /\ \E ds \in {dirs, dirs \cup {duplicate_dir}} : abandon(w, file_path[w], ds)
    /\ UNCHANGED <<file_queue, claimed, queue_mutex>>

\* Lines 73-75: the original goes to <root>/<extension>/<name>
move_original(w) ==
    /\ phase = "working"
    /\ pc[w] = "move_orig"
    /\ file_path[w].parts \in Files(fs)
    /\ fs' = shutil_move(fs, file_path[w].parts, dest_path_of(file_path[w]))
    /\ log' = log_operation(log,
                LogEntry("INFO", "Moved",
                         file_path[w].parts, dest_path_of(file_path[w])))
    /\ pc' = [pc EXCEPT ![w] = "placed_orig"]
    /\ UNCHANGED <<dirs, ledger, phase, runs, scan, unrecorded, kills, faults,
                   processed_files, all_files, file_queue, claimed,
                   queue_mutex, file_hashes, file_path, file_hash>>

move_original_fails(w) ==
    /\ phase = "working"
    /\ pc[w] = "move_orig"
    /\ \/ file_path[w].parts \notin Files(fs) /\ faults' = faults
       \/ /\ file_path[w].parts \in Files(fs)
          /\ faults < MaxFaults
          /\ faults' = faults + 1
    /\ abandon(w, file_path[w], dirs)
    /\ UNCHANGED <<file_queue, claimed, queue_mutex>>

\* Lines 78-80: processed_files.add(file_path); save_to_recovery(str(file_path))
mark_and_record(w) ==
    /\ processed_files' = processed_files \cup {file_path[w]}
    /\ ledger' = save_to_recovery(ledger, file_path[w])
    /\ pc' = [pc EXCEPT ![w] = "loop"]
    /\ file_path' = [file_path EXCEPT ![w] = NoPath]
    /\ file_hash' = [file_hash EXCEPT ![w] = NoHash]
    /\ UNCHANGED <<fs, dirs, log, phase, runs, scan, unrecorded, kills,
                   faults, all_files, file_queue, claimed, queue_mutex>>

\* Lines 76-80 after an original's move: file_hashes[file_hash] = dest_path,
\* then the path is marked and recorded.
record_original(w) ==
    /\ phase = "working"
    /\ pc[w] = "placed_orig"
    /\ file_hashes' = dict_set(file_hashes, file_hash[w],
                               StrOf(dest_path_of(file_path[w])))
    /\ mark_and_record(w)

\* Lines 78-80 after a duplicate's move
record_duplicate(w) ==
    /\ phase = "working"
    /\ pc[w] = "placed_dup"
    /\ UNCHANGED file_hashes
    /\ mark_and_record(w)

worker(w) ==
    \/ check_empty(w)
    \/ take_task(w)
    \/ take_task_fails(w)
    \/ hash_file(w)
    \/ hash_file_fails(w)
    \/ lookup_hash(w)
    \/ move_duplicate(w)
    \/ move_duplicate_fails(w)
    \/ move_original(w)
    \/ move_original_fails(w)
    \/ record_original(w)
    \/ record_duplicate(w)

Next ==
    \/ sort_files
    \/ \E w \in Workers : worker(w)
    \/ finish_sorting
    \/ kill_process

Spec == Init /\ [][Next]_vars

\* One run of sort_files from the initial tree, ended by its return or by
\* the termination of the process.
first_run == phase = "idle" /\ sort_files

NextRun ==
    \/ first_run
    \/ \E w \in Workers : worker(w)
    \/ finish_sorting
    \/ kill_process

SpecRun == Init /\ [][NextRun]_vars


\* ================================================================== claims
Enqueued == { p \in all_files : filter_files(p) }
InQueue(p) == Cardinality({ i \in 1..Len(file_queue) : file_queue[i] = p })
AllDone == \A w \in Workers : pc[w] = "done"
DestDirs == { <<e>> : e \in allowed_types \cup {no_extension} } \cup {duplicate_dir}

\* C1: every task the scan enqueued is handed out by get() exactly once: at
\* any moment each enqueued path is either still in the queue once or has
\* been claimed once, never both and never twice, and once every worker has
\* left its loop the queue is empty and every enqueued path was claimed.
C1_EachTaskClaimedOnce ==
    /\ \A p \in BagToSet(claimed) : p \in Enqueued
    /\ \A p \in Enqueued : CopiesIn(p, claimed) + InQueue(p) = 1
    /\ (phase = "working" /\ AllDone) =>
            /\ Len(file_queue) = 0
            /\ \A p \in Enqueued : CopiesIn(p, claimed) = 1

\* Two tasks were enqueued, both were claimed, and every worker has stopped.
C1_Witness ==
    /\ phase = "working"
    /\ AllDone
    /\ Cardinality(Enqueued) = 2
    /\ BagCardinality(claimed) = 2

\* C2: no worker blocks forever in the dequeue step.  During the work phase
\* nothing is enqueued, so a worker that is inside get() while the queue is
\* empty never leaves it (and never releases queue_mutex): the claim requires
\* that a worker inside get() always finds a task.
C2_NoWorkerBlocksInGet ==
    \A w \in Workers : pc[w] = "get" => Len(file_queue) > 0

\* C3: for every fingerprint at most one file of a run is placed as an
\* original: never have two workers both moved a file into an extension
\* folder as the original of the same fingerprint.
C3_OneOriginalPerFingerprint ==
    \A v, w \in Workers :
        (v # w /\ pc[v] = "placed_orig" /\ pc[w] = "placed_orig")
            => file_hash[v] # file_hash[w]

\* C4: no two files with distinct content have both been moved to the same
\* non-duplicate destination path: the destinations the dict holds for two
\* different fingerprints differ.
C4_DistinctContentDistinctDest ==
    \A g, h \in DOMAIN file_hashes :
        g # h => file_hashes[g] # file_hashes[h]

\* C5: after a run that enqueued every scanned file and met no I/O failure,
\* every file present at scan time exists at exactly one path, in an
\* extension folder or the duplicates area: none was lost to another file's
\* move, none is left at its source.
C5_EveryFileRelocatedOnce ==
    (phase = "completed" /\ faults = 0 /\ Enqueued = all_files) =>
        /\ Cardinality(Files(fs)) = Cardinality(all_files)
        /\ \A l \in Files(fs) : parent(l) \in DestDirs


\* The log entries of the moves of the file at l, and their number.
MoveEntries(l) ==
    { e \in BagToSet(log) :
        e.src = l /\ e.msg \in {"Moved", "Duplicate file found and moved"} }
RECURSIVE SumCopies(_, _)
SumCopies(S, B) ==
    IF S = {} THEN 0
    ELSE LET e == CHOOSE x \in S : TRUE
         IN  CopiesIn(e, B) + SumCopies(S \ {e}, B)
MovedCount(l) == SumCopies(MoveEntries(l), log)
ErrorEntry(l) == LogEntry("ERROR", "Error moving file", l, <<>>)
Recorded(l) == CopiesIn(StrOf(l), ledger)

\* Where the files moved and recorded so far were put.
RelocatedDest ==
    { e.dst : e \in { x \in BagToSet(log) :
                        /\ x.msg \in {"Moved", "Duplicate file found and moved"}
                        /\ Recorded(x.src) > 0 } }

\* C6: a run started after a kill enqueues only files not yet relocated: no
\* file that an earlier run moved and recorded is in the queue it builds.
C6_RestartSkipsRelocated ==
    [][(phase = "killed" /\ runs' = runs + 1) =>
          \A i \in 1..Len(file_queue') :
              file_queue'[i].parts \notin RelocatedDest]_vars

\* C7: a run over a tree on which the previous run completed, with every
\* scanned file relocated and recorded, enqueues nothing, ends as "nothing
\* to do" and leaves every file where it is.
C7_RerunDoesNothing ==
    [][(/\ phase = "completed"
        /\ all_files # {}
        /\ \A p \in all_files : Recorded(p.parts) > 0
        /\ \A l \in Files(fs) : parent(l) \in DestDirs
        /\ runs' = runs + 1) =>
          (Len(file_queue') = 0 /\ phase' = "nothing" /\ fs' = fs)]_vars

\* C8: during a run the dict only grows: an entry, once there, keeps its
\* destination path and is never removed.
C8_IndexAppendOnly ==
    [][(phase = "working" /\ phase' = "working") =>
          \A h \in DOMAIN file_hashes :
              h \in DOMAIN file_hashes' /\ file_hashes'[h] = file_hashes[h]]_vars

\* C9: an I/O failure on a task (makedirs, the read for the hash, the move)
\* ends neither the worker nor the run: the step writes one ERROR entry for
\* that path and nothing else, processed_files, recovery.txt, the dict and
\* the tree stay as they were, and the worker is back at the test of its
\* loop, from where it claims the next task.
C9_FailureAbandonsOnlyTheTask ==
    [][faults' > faults =>
          \E w \in Workers :
            LET task == IF pc[w] = "lock" THEN Head(file_queue) ELSE file_path[w]
            IN  /\ pc[w] \in {"lock", "hash", "move_dup", "move_orig"}
                /\ pc'[w] = "loop"
                /\ \A v \in Workers \ {w} : pc'[v] = pc[v]
                /\ phase' = "working"
                /\ log' = log_operation(log, ErrorEntry(task.parts))
                /\ processed_files' = processed_files
                /\ ledger' = ledger
                /\ file_hashes' = file_hashes
                /\ fs' = fs]_vars

\* A task failed and is still at its source, unprocessed and unrecorded,
\* while the run went on: another task was moved and recorded afterwards or
\* before, and the run has completed.
C9_Witness ==
    /\ phase = "completed"
    /\ \E l \in Files(fs) :
          /\ CopiesIn(ErrorEntry(l), log) = 1
          /\ PathObj(l) \in all_files
          /\ PathObj(l) \notin processed_files
          /\ Recorded(l) = 0
    /\ \E p \in processed_files : p.type = "Path" /\ Recorded(p.parts) = 1

Locations ==
    SourceLocs \cup { dest_path_of(PathObj(l)) : l \in SourceLocs }
               \cup { duplicate_dest_of(PathObj(l)) : l \in SourceLocs }
AwaitingRecord(l) ==
    Cardinality({ w \in Workers :
                    /\ pc[w] \in {"placed_orig", "placed_dup"}
                    /\ file_path[w].parts = l })

\* C10: a path is appended to recovery.txt only after the move of that file
\* succeeded, and every successful move is followed by exactly one append of
\* its path unless the process is killed in between: a path has never more
\* lines than logged moves, and while no kill happened its moves are its
\* lines plus the workers that have moved it and not yet recorded it.  A
\* skipped or failed task, which logs no move, therefore has no line.
C10_RecordFollowsMove ==
    \A l \in Locations :
        /\ Recorded(l) <= MovedCount(l)
        /\ kills = 0 => MovedCount(l) = Recorded(l) + AwaitingRecord(l)

\* One file has been moved and recorded, and another has been moved and is
\* about to be recorded.
C10_Witness ==
    /\ \E l \in Locations : Recorded(l) = 1 /\ MovedCount(l) = 1
    /\ \E l \in Locations : Recorded(l) = 0 /\ AwaitingRecord(l) = 1


\* C11: within a run processed_files only grows, and the scan enqueues no
\* path that the set loaded from recovery.txt holds.
C11_ProcessedNeverRequeued ==
    [][/\ (phase = "working" /\ phase' = "working")
            => processed_files \subseteq processed_files'
       /\ runs' = runs + 1
            => \A i \in 1..Len(file_queue') :
                  str(file_queue'[i]) \notin processed_files']_vars


\* ------------------------------------------------------------------ one at a time
\* The workers of the pool run one after the other: a worker takes steps
\* only when every worker before it has returned, so the tasks are
\* processed one at a time in queue order, as with thread_count = 1.
MaxSeqFiles == 3    \* files in the tree of a run of this kind

InitialTreesSeq ==
    UNION { [S -> Contents] :
            S \in { T \in SUBSET SourceLocs :
                    Cardinality(T) >= 1 /\ Cardinality(T) <= MaxSeqFiles } }

InitSeq ==
    /\ fs \in InitialTreesSeq
    /\ dirs = {<<>>} \cup { parent(l) : l \in DOMAIN fs }
    /\ ledger = EmptyBag
    /\ log = EmptyBag
    /\ phase = "idle"
    /\ runs = 0
    /\ scan = NoScan
    /\ unrecorded = {}
    /\ kills = 0
    /\ faults = 0
    /\ processed_files = {}
    /\ all_files = {}
    /\ file_queue = <<>>
    /\ claimed = EmptyBag
    /\ queue_mutex = Unlocked
    /\ file_hashes = <<>>
    /\ pc = [w \in Workers |-> "idle"]
    /\ file_path = [w \in Workers |-> NoPath]
    /\ file_hash = [w \in Workers |-> NoHash]

in_turn(w) == \A v \in Workers : v < w => pc[v] = "done"

NextSeq ==
    \/ first_run
    \/ \E w \in Workers : in_turn(w) /\ worker(w)
    \/ finish_sorting
    \/ kill_process

SpecSeq == InitSeq /\ [][NextSeq]_vars

MovedEntry(p) == LogEntry("INFO", "Moved", p.parts, dest_path_of(p))
DuplicateEntry(p) ==
    LogEntry("INFO", "Duplicate file found and moved", p.parts,
             duplicate_dest_of(p))
SameContentAtScan(p, q) == scan.tree[p.parts] = scan.tree[q.parts]

\* The enqueued files other than q with q's content at scan time and q's
\* extension, and those of them that were dequeued before q.
Partners(q) ==
    { p \in Enqueued \ {q} :
        SameContentAtScan(p, q) /\ extension_of(p) = extension_of(q) }
DequeuedBefore(q) == Partners(q) \cap BagToSet(claimed)

\* C12: with the tasks processed one after another in queue order and no
\* I/O failure, of the scanned files with identical content and the same
\* extension the one dequeued first is moved to its extension folder as the
\* original and one dequeued after it is moved to the duplicates area: such
\* a file is placed as the original only when none of the others was
\* dequeued before it, and as a duplicate only when one was.
C12_FirstDequeuedIsOriginal ==
    [][faults = 0 =>
          \A w \in Workers :
              /\ (pc[w] = "move_orig" /\ pc'[w] = "placed_orig")
                    => DequeuedBefore(file_path[w]) = {}
              /\ (pc[w] = "move_dup" /\ pc'[w] = "placed_dup")
                    => \/ Partners(file_path[w]) = {}
                       \/ DequeuedBefore(file_path[w]) # {}]_vars

QueueSet(q) == { q[i] : i \in 1..Len(q) }
NotAllowedAtScan ==
    { l \in DOMAIN scan.tree :
        lower(lstrip_dot(suffix(l[Len(l)]))) \notin allowed_types }

\* C14: a file whose lowercased extension is not in allowed_types is never
\* enqueued or claimed, and from the scan to the end of the run it stays at
\* its path, in its folder, with its content.
C14_FilteredFilesUntouched ==
    \A l \in NotAllowedAtScan :
        /\ PathObj(l) \notin QueueSet(file_queue)
        /\ CopiesIn(PathObj(l), claimed) = 0
        /\ \A w \in Workers : file_path[w] # PathObj(l)
        /\ l \in Files(fs)
        /\ fs[l] = scan.tree[l]
        /\ parent(l) \in dirs

\* A run has completed in which one file was moved and a file outside the
\* allow-list was in the tree.
C14_Witness ==
    /\ phase = "completed"
    /\ NotAllowedAtScan # {}
    /\ \E l \in DOMAIN scan.tree : MovedCount(l) = 1


\* C15: when a worker places a file as an original (its fingerprint is not in
\* file_hashes), no other file is at <root>/<extension>/<name>: the move
\* never lands on a path that holds a different file.
C15_OriginalMoveNeverOverwrites ==
    [][\A w \in Workers :
          (pc[w] = "move_orig" /\ pc'[w] = "placed_orig")
              => \/ dest_path_of(file_path[w]) \notin Files(fs)
                 \/ dest_path_of(file_path[w]) = file_path[w].parts]_vars


\* C16: when a kill fell between the move of a file and the append of its
\* path to recovery.txt, the next run, if it completes without I/O failure,
\* has scanned the file where the move left it, logged no error for it,
\* moved it onto its own path or to <root>/duplicate_files/<name>, and
\* appended its path to recovery.txt.
C16_UnrecordedMoveIsReprocessed ==
    (phase = "completed" /\ faults = 0) =>
        \A d \in unrecorded :
            /\ CopiesIn(PathObj(d), claimed) = 1
            /\ CopiesIn(ErrorEntry(d), log) = 0
            /\ MoveEntries(d) # {}
            /\ \A e \in MoveEntries(d) :
                   e.dst \in {d, duplicate_dest_of(PathObj(d))}
            /\ Recorded(d) >= 1


\* C17: a task handed out by get() whose path is in processed_files is
\* skipped: the worker is back at the test of its loop with the file not
\* taken up for hashing or moving, and the tree, the dict, processed_files
\* and recovery.txt are as they were.
C17_ProcessedTaskIsSkipped ==
    [][\A w \in Workers :
          (/\ pc[w] = "lock"
           /\ pc'[w] # "lock"
           /\ Len(file_queue) > 0
           /\ \/ Head(file_queue) \in processed_files
              \/ str(Head(file_queue)) \in processed_files)
          => /\ pc'[w] = "loop"
             /\ file_path'[w] = file_path[w]
             /\ fs' = fs
             /\ file_hashes' = file_hashes
             /\ processed_files' = processed_files
             /\ ledger' = ledger]_vars


Grows(q, r) == Len(r) > Len(q) \/ \E i \in 1..Len(r) : r[i] \notin QueueSet(q)
DeletedEntries == { e \in BagToSet(log) : e.msg = "Deleted empty folder" }

\* C18: the phases of sort_files follow one another.  A path is put on the
\* queue only by the scan, while no worker runs; in the work phase the queue
\* only loses its head; the step that ends the work phase, which logs the
\* completion and deletes the empty folders, is taken only with every worker
\* done, and no folder is deleted by any other step; a scan that leaves the
\* queue empty ends the run as "nothing to do" with no worker started and
\* the tree, the folders and log.txt as they were, and nothing follows it
\* but a new run.
C18_PhasesInOrder ==
    [][/\ Grows(file_queue, file_queue')
            => /\ phase # "working"
               /\ runs' = runs + 1
               /\ \A w \in Workers : pc[w] = "idle"
       /\ (phase = "working" /\ phase' = "working")
            => \/ file_queue' = file_queue
               \/ Len(file_queue) > 0 /\ file_queue' = Tail(file_queue)
       /\ (phase' = "completed" /\ phase # "completed")
            => /\ phase = "working"
               /\ \A w \in Workers : pc[w] = "done"
       /\ ~(dirs \subseteq dirs')
            => /\ phase = "working" /\ phase' = "completed"
               /\ \A w \in Workers : pc[w] = "done"
       /\ (runs' = runs + 1 /\ Len(file_queue') = 0)
            => /\ phase' = "nothing"
               /\ \A w \in Workers : pc'[w] = "idle"
               /\ disk' = disk
       /\ phase = "nothing" => runs' = runs + 1]_vars

\* A run has gone through all its phases: two files were enqueued and
\* claimed, both workers have returned, and the cleanup deleted a folder.
C18_Witness ==
    /\ phase = "completed"
    /\ BagCardinality(claimed) = 2
    /\ DeletedEntries # {}


LastDot(n) ==
    LET dots == { i \in 1..Len(n) : n[i] = "." }
    IN  IF dots = {} THEN 0 ELSE CHOOSE i \in dots : \A k \in dots : k <= i
ExpectedFolder(n) ==
    IF LastDot(n) \in {0, 1, Len(n)} THEN no_extension
    ELSE lower(SubSeq(n, LastDot(n) + 1, Len(n)))
Relocates(src, dst) ==
    /\ dst \in Files(fs')
    /\ fs'[dst] = fs[src]
    /\ parent(dst) \in dirs'
    /\ src # dst => src \notin Files(fs')
    /\ \A l \in Files(fs) \ {src, dst} : l \in Files(fs') /\ fs'[l] = fs[l]

\* C19: the step that places a file as an original moves it to
\* <root>/<extension>/<name>, the extension being the characters after the
\* last dot of the name in lower case, or "no_extension" when there are
\* none; the step that places a file as a duplicate moves it to
\* <root>/duplicate_files/<name>, whichever duplicate of the run it is.
C19_DestinationLayout ==
    [][\A w \in Workers :
          LET src == file_path[w].parts
              n   == src[Len(src)]
          IN  /\ (pc[w] = "move_orig" /\ pc'[w] = "placed_orig")
                    => Relocates(src, <<ExpectedFolder(n), n>>)
              /\ (pc[w] = "move_dup" /\ pc'[w] = "placed_dup")
                    => Relocates(src, <<duplicate_files, n>>)]_vars

\* A run has completed in which a file with an upper-case extension was
\* placed as an original and another file as a duplicate.
C19_Witness ==
    /\ phase = "completed"
    /\ \E p, q \in BagToSet(claimed) :
          /\ lower(name_of(p)) # name_of(p)
          /\ CopiesIn(MovedEntry(p), log) = 1
          /\ dest_path_of(p) \in Files(fs)
          /\ CopiesIn(DuplicateEntry(q), log) = 1
          /\ duplicate_dest_of(q) \in Files(fs)


\* C20: during a run every entry digest -> path of file_hashes names a path
\* at which a file is present whose content has that digest.
C20_IndexEntriesPointAtTheirContent ==
    phase = "working" =>
        \A h \in DOMAIN file_hashes :
            /\ file_hashes[h].parts \in Files(fs)
            /\ calculate_checksum(fs[file_hashes[h].parts]) = h

====
